---------------------------- MODULE Spec2Model ----------------------------
(* Model of src/server.js: an MCP server over Streamable HTTP exposing the *)
(* tools answer, search and fetch, backed by the Perplexity chat API.      *)
(* A JavaScript string is a sequence of UTF-16 code units, a Buffer is a   *)
(* sequence of bytes, and a base64url token is a sequence of ASCII codes.  *)
EXTENDS Integers, Sequences, FiniteSets, TLC

(***************************************************************************)
(* Bounds                                                                  *)
(***************************************************************************)
MaxLen == 2
MaxConns == 2

(***************************************************************************)
(* State                                                                   *)
(***************************************************************************)
VARIABLES
  apiKey,  \* PPLX_API_KEY is set (truthy); read once at startup
  alive,   \* the process has not died of an error nobody caught
  conn,    \* per POST /mcp request: the handler, its call, its response
  bound,   \* per registry: the transport it is connected to, 0 for none
  apc, ain, areq, arep, aout,  \* one askPerplexity call run on its own
  cpc, cq, cref, cout          \* one b64enc / b64dec run on its own

svars == <<apiKey, alive, conn, bound>>
askvars == <<apc, ain, areq, arep, aout>>
cvars == <<cpc, cq, cref, cout>>
vars == <<apiKey, alive, conn, bound, apc, ain, areq, arep, aout, cpc, cq, cref, cout>>

\* The variables of the runs of the codec and of askPerplexity on their own.
others == <<askvars, cvars>>

(***************************************************************************)
(* Strings                                                                 *)
(***************************************************************************)
\* Code units the queries are built from: 'A', e-acute (2 UTF-8 bytes),
\* a CJK ideograph (3 bytes), the surrogate pair of U+1F600 (4 bytes), and
\* U+FFFD itself.
Units == {65, 233, 20013, 55357, 56832, 65533}

RECURSIVE SeqsUpTo(_, _)
SeqsUpTo(S, n) ==
  IF n = 0 THEN {<<>>}
  ELSE LET P == SeqsUpTo(S, n - 1)
       IN P \cup {Append(p, x) : p \in {r \in P : Len(r) = n - 1}, x \in S}

Strings == SeqsUpTo(Units, MaxLen)

IsHigh(c) == c >= 55296 /\ c <= 56319
IsLow(c) == c >= 56320 /\ c <= 57343

\* A string with no unpaired surrogate: the JavaScript strings that are the
\* image of some UTF-8 text.
RECURSIVE WellFormed(_)
WellFormed(s) ==
  IF s = <<>> THEN TRUE
  ELSE IF IsHigh(s[1]) THEN Len(s) >= 2 /\ IsLow(s[2]) /\ WellFormed(Tail(Tail(s)))
  ELSE IF IsLow(s[1]) THEN FALSE
  ELSE WellFormed(Tail(s))

(***************************************************************************)
(* Buffer.from(s, "utf8"): UTF-16 code units to UTF-8 bytes; an unpaired   *)
(* surrogate is written as U+FFFD (EF BF BD).                              *)
(***************************************************************************)
RECURSIVE utf8Write(_)
utf8Write(s) ==
  IF s = <<>> THEN <<>>
  ELSE LET c == s[1] IN
    IF IsHigh(c) /\ Len(s) >= 2 /\ IsLow(s[2])
    THEN LET cp == 65536 + (c - 55296) * 1024 + (s[2] - 56320)
         IN <<240 + (cp \div 262144), 128 + ((cp \div 4096) % 64),
              128 + ((cp \div 64) % 64), 128 + (cp % 64)>>
            \o utf8Write(Tail(Tail(s)))
    ELSE IF IsHigh(c) \/ IsLow(c) THEN <<239, 191, 189>> \o utf8Write(Tail(s))
    ELSE IF c < 128 THEN <<c>> \o utf8Write(Tail(s))
    ELSE IF c < 2048 THEN <<192 + (c \div 64), 128 + (c % 64)>> \o utf8Write(Tail(s))
    ELSE <<224 + (c \div 4096), 128 + ((c \div 64) % 64), 128 + (c % 64)>>
         \o utf8Write(Tail(s))

(***************************************************************************)
(* buf.toString("utf8"): UTF-8 bytes to code units; every maximal invalid  *)
(* subpart becomes U+FFFD.  cp is the code point being assembled, need the *)
(* continuation bytes still expected, lo..hi the range the next one must   *)
(* lie in.                                                                 *)
(***************************************************************************)
utf8Emit(cp) ==
  IF cp > 65535
  THEN <<55296 + ((cp - 65536) \div 1024), 56320 + ((cp - 65536) % 1024)>>
  ELSE <<cp>>

RECURSIVE utf8Slice(_, _, _, _, _)
utf8Slice(b, cp, need, lo, hi) ==
  IF b = <<>> THEN (IF need # 0 THEN <<65533>> ELSE <<>>)
  ELSE LET x == b[1] IN
    IF need = 0 THEN
      IF x < 128 THEN <<x>> \o utf8Slice(Tail(b), 0, 0, 128, 191)
      ELSE IF x >= 194 /\ x <= 223 THEN utf8Slice(Tail(b), x - 192, 1, 128, 191)
      ELSE IF x >= 224 /\ x <= 239
        THEN utf8Slice(Tail(b), x - 224, 2,
                       IF x = 224 THEN 160 ELSE 128, IF x = 237 THEN 159 ELSE 191)
      ELSE IF x >= 240 /\ x <= 244
        THEN utf8Slice(Tail(b), x - 240, 3,
                       IF x = 240 THEN 144 ELSE 128, IF x = 244 THEN 143 ELSE 191)
      ELSE <<65533>> \o utf8Slice(Tail(b), 0, 0, 128, 191)
    ELSE IF x < lo \/ x > hi THEN <<65533>> \o utf8Slice(b, 0, 0, 128, 191)
    ELSE IF need = 1 THEN utf8Emit(cp * 64 + (x - 128)) \o utf8Slice(Tail(b), 0, 0, 128, 191)
    ELSE utf8Slice(Tail(b), cp * 64 + (x - 128), need - 1, 128, 191)

(***************************************************************************)
(* base64url                                                               *)
(***************************************************************************)
\* The base64url alphabet: A-Z a-z 0-9 - _
base64urlChar(v) ==
  IF v < 26 THEN 65 + v
  ELSE IF v < 52 THEN 97 + (v - 26)
  ELSE IF v < 62 THEN 48 + (v - 52)
  ELSE IF v = 62 THEN 45
  ELSE 95

\* The decoder's table: both the base64 and the base64url alphabet are
\* legal; every other character maps to 64 (illegal).
unbase64(c) ==
  IF c >= 65 /\ c <= 90 THEN c - 65
  ELSE IF c >= 97 /\ c <= 122 THEN c - 97 + 26
  ELSE IF c >= 48 /\ c <= 57 THEN c - 48 + 52
  ELSE IF c = 45 \/ c = 43 THEN 62
  ELSE IF c = 95 \/ c = 47 THEN 63
  ELSE 64

\* buf.toString("base64url"): three bytes to four characters, no padding.
RECURSIVE base64Encode(_)
base64Encode(b) ==
  IF Len(b) = 0 THEN <<>>
  ELSE IF Len(b) = 1 THEN <<b[1] \div 4, (b[1] % 4) * 16>>
  ELSE IF Len(b) = 2
    THEN <<b[1] \div 4, (b[1] % 4) * 16 + (b[2] \div 16), (b[2] % 16) * 4>>
  ELSE <<b[1] \div 4, (b[1] % 4) * 16 + (b[2] \div 16),
         (b[2] % 16) * 4 + (b[3] \div 64), b[3] % 64>>
       \o base64Encode(SubSeq(b, 4, Len(b)))

\* The characters the decoder consumes: it skips every illegal character
\* and stops at the first '='.  It never fails.
RECURSIVE legalSextets(_)
legalSextets(s) ==
  IF s = <<>> THEN <<>>
  ELSE IF s[1] = 61 THEN <<>>
  ELSE IF unbase64(s[1]) < 64 THEN <<unbase64(s[1])>> \o legalSextets(Tail(s))
  ELSE legalSextets(Tail(s))

\* Four sextets to three bytes; a trailing group of two gives one byte, of
\* three gives two bytes, and a single trailing sextet is dropped.
RECURSIVE base64Decode(_)
base64Decode(v) ==
  IF Len(v) < 2 THEN <<>>
  ELSE IF Len(v) = 2 THEN <<v[1] * 4 + (v[2] \div 16)>>
  ELSE IF Len(v) = 3
    THEN <<v[1] * 4 + (v[2] \div 16), (v[2] % 16) * 16 + (v[3] \div 4)>>
  ELSE <<v[1] * 4 + (v[2] \div 16), (v[2] % 16) * 16 + (v[3] \div 4),
         (v[3] % 4) * 64 + v[4]>>
       \o base64Decode(SubSeq(v, 5, Len(v)))

\* A variant of b64enc that encodes whole 3-byte groups only.
b64encDropTail(s) ==
  LET b == utf8Write(s)
      v == base64Encode(SubSeq(b, 1, 3 * (Len(b) \div 3)))
  IN [i \in 1..Len(v) |-> base64urlChar(v[i])]

\* const b64enc = (s) => Buffer.from(s, "utf8").toString("base64url")
b64enc(s) ==
  LET v == base64Encode(utf8Write(s))
  IN [i \in 1..Len(v) |-> base64urlChar(v[i])]

\* A variant of b64dec that reads the bytes as latin1, one unit per byte.
b64decLatin1(s) == base64Decode(legalSextets(s))

\* const b64dec = (s) => Buffer.from(s, "base64url").toString("utf8")
b64dec(s) == utf8Slice(base64Decode(legalSextets(s)), 0, 0, 128, 191)

(***************************************************************************)
(* JSON values as the upstream payload is read with optional chaining      *)
(***************************************************************************)
JUndefined == [t |-> "undefined"]
JNull == [t |-> "null"]
JStr(s) == [t |-> "str", s |-> s]
JArr(a) == [t |-> "arr", a |-> a]
JObj(o) == [t |-> "obj", o |-> o]

nullish(v) == v.t \in {"undefined", "null"}

\* v?.k
member(v, k) ==
  IF v.t = "obj" /\ k \in DOMAIN v.o THEN v.o[k] ELSE JUndefined

\* v?.[0], for the arrays and non-indexable values the payloads contain
first(v) ==
  IF v.t = "arr" /\ Len(v.a) >= 1 THEN v.a[1] ELSE JUndefined

(***************************************************************************)
(* askPerplexity                                                           *)
(***************************************************************************)
\* An absent (undefined) numeric option, and an absent style.
Undef == -1
NoStyle == "undefined"

Styles == {"short", "medium", "long"}

Max(a, b) == IF a >= b THEN a ELSE b

\* minWords ?? 0
orZero(m) == IF m = Undef THEN 0 ELSE m

\* truthiness of a number-or-undefined
truthy(n) == n # Undef /\ n # 0

\* A variant of askTarget that takes the style's floor and ignores minWords.
askTargetMin(style, minWords) ==
  IF style = "short" THEN 60
  ELSE IF style = "medium" THEN 160
  ELSE IF style = "long" THEN 300
  ELSE Undef

\* const target = style === "short" ? Math.max(60, minWords ?? 0) : ...
askTarget(style, minWords) ==
  IF style = "short" THEN Max(60, orZero(minWords))
  ELSE IF style = "medium" THEN Max(160, orZero(minWords))
  ELSE IF style = "long" THEN Max(300, orZero(minWords))
  ELSE Undef

\* The system message: the default one, or the one anchored on a word count.
DefaultSystem == [anchored |-> FALSE, words |-> 0]

askSystem(style, minWords) ==
  IF style # NoStyle \/ truthy(minWords)
  THEN LET target == askTarget(style, minWords)
       IN IF truthy(target) THEN [anchored |-> TRUE, words |-> target]
          ELSE DefaultSystem
  ELSE DefaultSystem

NoReq == [sent |-> FALSE, query |-> <<>>, system |-> DefaultSystem]

NoOut == [status |-> "none", err |-> "", full |-> JUndefined, model |-> JUndefined]

\* A variant of askBegin that sends the request without looking at the key.
askBeginLate(key, query, style, minWords) ==
  [threw |-> FALSE, err |-> "",
   req |-> [sent |-> TRUE, query |-> query, system |-> askSystem(style, minWords)]]

\* askPerplexity up to its await of fetch(PPLX_URL, ...): throws when the key
\* is missing, otherwise the request is on its way.
askBegin(key, query, style, minWords) ==
  IF ~key THEN [threw |-> TRUE, err |-> "Missing PERPLEXITY_API_KEY", req |-> NoReq]
  ELSE [threw |-> FALSE, err |-> "",
        req |-> [sent |-> TRUE, query |-> query, system |-> askSystem(style, minWords)]]

\* A variant of askFull without the final ?? "".
askFullNoDefault(json) ==
  LET choice == first(member(json, "choices"))
      content == member(member(choice, "message"), "content")
  IN IF ~nullish(content) THEN content ELSE member(choice, "text")

\* json?.choices?.[0]?.message?.content ?? json?.choices?.[0]?.text ?? ""
askFull(json) ==
  LET choice == first(member(json, "choices"))
      content == member(member(choice, "message"), "content")
      text == member(choice, "text")
  IN IF ~nullish(content) THEN content
     ELSE IF ~nullish(text) THEN text
     ELSE JStr("")

\* askPerplexity from the upstream response on.  A reply is its ok flag, its
\* status, whether its body parses as JSON, and the parsed value.
askEnd(reply) ==
  IF ~reply.ok
  THEN [status |-> "error", err |-> "Perplexity status", full |-> JUndefined,
        model |-> JUndefined]
  ELSE IF ~reply.parses
  THEN [status |-> "error", err |-> "SyntaxError", full |-> JUndefined,
        model |-> JUndefined]
  ELSE [status |-> "ok", err |-> "", full |-> askFull(reply.json),
        model |-> member(reply.json, "model")]

\* Upstream payloads: the shapes askPerplexity reads.
Choice(c) == JObj([choices |-> JArr(<<c>>)])

Payloads ==
  << JNull,
     JObj([model |-> JStr("sonar-pro")]),
     JObj([choices |-> JNull]),
     JObj([choices |-> JArr(<<>>)]),
     Choice(JNull),
     Choice(JObj([index |-> JStr("0")])),
     Choice(JObj([message |-> JObj([role |-> JStr("assistant")])])),
     Choice(JObj([message |-> JObj([content |-> JNull])])),
     Choice(JObj([message |-> JObj([content |-> JNull]), text |-> JStr("T")])),
     Choice(JObj([text |-> JStr("T")])),
     Choice(JObj([message |-> JObj([content |-> JStr("")]), text |-> JStr("T")])),
     JObj([choices |-> JArr(<<JObj([message |-> JObj([content |-> JStr("C")])])>>),
           model |-> JStr("sonar-pro")]) >>

Replies ==
  << [ok |-> FALSE, status |-> 500, parses |-> FALSE, json |-> JUndefined],
     [ok |-> FALSE, status |-> 401, parses |-> TRUE, json |-> JObj([error |-> JStr("E")])],
     [ok |-> TRUE, status |-> 200, parses |-> FALSE, json |-> JUndefined] >>
  \o [i \in 1..Len(Payloads) |->
        [ok |-> TRUE, status |-> 200, parses |-> TRUE, json |-> Payloads[i]]]

(***************************************************************************)
(* askPerplexity on its own                                                *)
(***************************************************************************)
AskQueries == {<<65>>, <<233, 20013>>}
AskMinWords == {Undef, 1, 60, 100, 200, 500}

AskInit ==
  /\ apiKey \in BOOLEAN
  /\ apc = "start"
  /\ ain \in [query : AskQueries, style : Styles \cup {NoStyle}, minWords : AskMinWords]
  /\ areq = NoReq
  /\ arep = 0
  /\ aout = NoOut

AskCall ==
  /\ apc = "start"
  /\ LET b == askBegin(apiKey, ain.query, ain.style, ain.minWords)
     IN IF b.threw
        THEN /\ apc' = "done"
             /\ aout' = [NoOut EXCEPT !.status = "error", !.err = b.err]
             /\ areq' = areq
        ELSE /\ apc' = "awaiting"
             /\ areq' = b.req
             /\ aout' = aout
  /\ UNCHANGED <<apiKey, ain, arep, alive, conn, bound, cvars>>

AskReply ==
  /\ apc = "awaiting"
  /\ \E i \in 1..Len(Replies) :
       /\ arep' = i
       /\ aout' = askEnd(Replies[i])
  /\ apc' = "done"
  /\ UNCHANGED <<apiKey, ain, areq, alive, conn, bound, cvars>>

AskNext == AskCall \/ AskReply

(***************************************************************************)
(* The tools registered by buildServer                                     *)
(***************************************************************************)
\* The characters encodeURIComponent leaves alone: A-Z a-z 0-9 - _ . ! ~ * ' ( )
unreserved(b) ==
  \/ (b >= 65 /\ b <= 90) \/ (b >= 97 /\ b <= 122) \/ (b >= 48 /\ b <= 57)
  \/ b \in {45, 95, 46, 33, 126, 42, 39, 40, 41}

\* encodeURIComponent(q) for a well-formed q (it throws URIError otherwise):
\* the UTF-8 bytes of q, each kept or percent-escaped (256 + b stands for %XX).
encodeURIComponent(q) ==
  LET b == utf8Write(q)
  IN [i \in 1..Len(b) |-> IF unreserved(b[i]) THEN b[i] ELSE 256 + b[i]]

title(q) == [prefix |-> "Perplexity: ", query |-> q]
url(q) == [base |-> "https://www.perplexity.ai/search?q=", q |-> encodeURIComponent(q)]

NoCall == [tool |-> "none", query |-> <<>>, ref |-> <<>>, style |-> NoStyle, minWords |-> Undef]
SearchCall(q) == [NoCall EXCEPT !.tool = "search", !.query = q]
FetchCall(r) == [NoCall EXCEPT !.tool = "fetch", !.ref = r]
AnswerCall(q, s, m) == [NoCall EXCEPT !.tool = "answer", !.query = q, !.style = s, !.minWords = m]

\* What a tool call gives back: a failure of that call (the handler threw), or
\* the content of the tool: the result list of search, the document of
\* fetch, the raw-marked payload of answer.
NoResult == [status |-> "none", err |-> "", results |-> <<>>, doc |-> <<>>, answer |-> <<>>]
Failure(e) == [NoResult EXCEPT !.status = "error", !.err = e]

Running(req) == [hpc |-> "awaiting", req |-> req, result |-> NoResult]
Finished(r) == [hpc |-> "done", req |-> NoReq, result |-> r]

\* The search handler: no await, no upstream call.
searchTool(query) ==
  IF ~WellFormed(query) THEN Failure("URIError")
  ELSE [NoResult EXCEPT !.status = "ok",
          !.results = << [id |-> b64enc(query), title |-> title(query), url |-> url(query)] >>]

\* A tool handler from its call to its first await of the network.
toolBegin(key, call) ==
  IF call.tool = "search" THEN Finished(searchTool(call.query))
  ELSE LET b == IF call.tool = "fetch"
                THEN askBegin(key, b64dec(call.ref), NoStyle, Undef)
                ELSE askBegin(key, call.query, call.style, call.minWords)
       IN IF b.threw THEN Finished(Failure(b.err)) ELSE Running(b.req)

\* The fetch and answer handlers from the upstream reply on.
toolEnd(call, reply) ==
  LET a == askEnd(reply) IN
  IF a.status = "error" THEN Failure(a.err)
  ELSE IF call.tool = "fetch"
  THEN LET query == b64dec(call.ref)
       IN [NoResult EXCEPT !.status = "ok",
             !.doc = << [id |-> call.ref, title |-> title(query), text |-> a.full,
                         url |-> url(query), source |-> "perplexity"] >>]
  ELSE [NoResult EXCEPT !.status = "ok",
          !.answer = << [full |-> a.full, model |-> a.model] >>]

(***************************************************************************)
(* POST /mcp                                                               *)
(***************************************************************************)
Conns == 1..MaxConns

\* The objects made while serving the c-th request are named c; 0 is none.
\* One registry built once and shared by every request.
buildServerShared(c) == CHOOSE s \in Conns : \A x \in Conns : s <= x

buildServer(c) == c

newTransport(c) == c

IdleConn ==
  [pc |-> "idle", call |-> NoCall, srv |-> 0, tr |-> 0, hpc |-> "none",
   req |-> NoReq, result |-> NoResult, headersSent |-> FALSE, status |-> 0,
   writes |-> 0, res |-> "open", out |-> {}, teardown |-> <<>>]

ResultMessage(r) == [kind |-> "result", code |-> 0, id |-> "call", result |-> r]
InternalError == [kind |-> "error", code |-> -32603, id |-> "null", result |-> NoResult]

\* try { ... } covers the construction, connect and handleRequest.
tryCovers(stage) == stage \in {"build", "connect", "handle"}

\* A variant of onError that answers 500 whether or not the response began.
onErrorAlways(r) ==
  [r EXCEPT !.pc = "caught", !.status = 500, !.headersSent = TRUE,
            !.writes = @ + 1, !.out = @ \cup {InternalError},
            !.res = IF @ = "open" THEN "finished" ELSE @]

\* catch (err) { ... if (!res.headersSent) res.status(500).json({...}) }
onError(r) ==
  IF ~r.headersSent
  THEN [r EXCEPT !.pc = "caught", !.status = 500, !.headersSent = TRUE,
                 !.writes = @ + 1, !.out = @ \cup {InternalError},
                 !.res = IF @ = "open" THEN "finished" ELSE @]
  ELSE [r EXCEPT !.pc = "caught"]

\* A variant of onClose that closes the registry before the transport.
onCloseServerFirst(r) ==
  [r EXCEPT !.teardown = @ \o <<"server.close", "transport.close">>]

\* res.on("close", () => { transport.close(); server.close(); })
onClose(r) ==
  [r EXCEPT !.teardown = @ \o <<"transport.close", "server.close">>]

\* What the clients send.  A reference needs no earlier search on this
\* process to be held by a client: the server keeps nothing about it.
\* The malformed reference is "not-valid-base64!!".
SysQueries == {<<65>>, <<233, 20013>>, <<55357>>}
MalformedRefs ==
  {<<110, 111, 116, 45, 118, 97, 108, 105, 100, 45, 98, 97, 115, 101, 54, 52, 33, 33>>}
SysReplies == {Len(Replies)}

Calls ==
  {SearchCall(q) : q \in SysQueries}
  \cup {FetchCall(b64enc(q)) : q \in {x \in SysQueries : WellFormed(x)}}
  \cup {FetchCall(r) : r \in MalformedRefs}
  \cup {AnswerCall(<<65>>, "short", Undef)}

SysInit ==
  /\ apiKey \in BOOLEAN
  /\ alive = TRUE
  /\ conn = [c \in Conns |-> IdleConn]
  /\ bound = [s \in Conns |-> 0]

\* Requests are numbered in their order of arrival.
Arrived(c) == IF c = 0 THEN TRUE ELSE conn[c].pc # "idle"

\* The handler runs to its await of server.connect: the registry and the
\* transport are built and the close listener is registered.
Post(c) ==
  /\ alive
  /\ conn[c].pc = "idle"
  /\ Arrived(c - 1)
  /\ \E call \in Calls :
       conn' = [conn EXCEPT ![c] = [@ EXCEPT !.pc = "connecting", !.call = call,
                                            !.srv = buildServer(c),
                                            !.tr = newTransport(c)]]
  /\ UNCHANGED <<apiKey, alive, bound, others>>

\* buildServer or the transport's constructor throws; the call in the
\* request's body is never read.
PostThrows(c) ==
  /\ alive
  /\ conn[c].pc = "idle"
  /\ Arrived(c - 1)
  /\ alive' = tryCovers("build")
  /\ conn' = [conn EXCEPT ![c] = onError(@)]
  /\ UNCHANGED <<apiKey, bound, others>>

\* server.connect(transport) rejects.
ConnectThrows(c) ==
  /\ alive
  /\ conn[c].pc = "connecting"
  /\ alive' = tryCovers("connect")
  /\ conn' = [conn EXCEPT ![c] = onError(@)]
  /\ UNCHANGED <<apiKey, bound, others>>

\* The transport begins the response: status line and headers.
writeHead(r) ==
  IF r.headersSent \/ r.res # "open" THEN r
  ELSE [r EXCEPT !.headersSent = TRUE, !.status = 200, !.writes = @ + 1]

\* The result r of the call of connection c leaves through the transport its
\* registry is bound to (bd), into that transport's response if it is still
\* open; the response is then complete and handleRequest resolves.
Deliver(cs, bd, c, r) ==
  LET t == IF cs[c].srv = 0 THEN 0 ELSE bd[cs[c].srv] IN
  IF t = 0 \/ cs[t].res # "open" THEN cs
  ELSE [cs EXCEPT ![t] =
          [@ EXCEPT !.headersSent = TRUE,
                    !.status = IF cs[t].headersSent THEN @ ELSE 200,
                    !.writes = IF cs[t].headersSent THEN @ ELSE @ + 1,
                    !.out = @ \cup {ResultMessage(r)},
                    !.res = "finished",
                    !.pc = IF @ = "handling" THEN "ended" ELSE @]]

\* The handler of connection c's call reaches h: suspended on the network, or
\* at its end with a result to deliver.  cn and bd are the connections and
\* the bindings at that moment.
Settle(cn, bd, c, h) ==
  LET cs == [cn EXCEPT ![c] = [@ EXCEPT !.hpc = h.hpc, !.req = h.req,
                                        !.result = h.result]]
  IN IF h.hpc = "done" THEN Deliver(cs, bd, c, h.result) ELSE cs

\* server.connect(transport) resolves: the registry is bound to the
\* transport.  transport.handleRequest is called and hands the call to the
\* tool's handler, which runs to its first await of the network, or to its end.
Connected(c) ==
  /\ alive
  /\ conn[c].pc = "connecting"
  /\ bound' = [bound EXCEPT ![conn[c].srv] = conn[c].tr]
  /\ conn' = Settle([conn EXCEPT ![c].pc = "handling"], bound', c,
                   toolBegin(apiKey, conn[c].call))
  /\ UNCHANGED <<apiKey, alive, others>>

\* The upstream API answers; the handler runs to its end.  The call is not
\* cancelled by the end of its connection.
UpstreamReply(c) ==
  /\ alive
  /\ conn[c].hpc = "awaiting"
  /\ \E i \in SysReplies :
       conn' = Settle(conn, bound, c,
                      [Finished(toolEnd(conn[c].call, Replies[i]))
                         EXCEPT !.req = conn[c].req])
  /\ UNCHANGED <<apiKey, alive, bound, others>>

\* transport.handleRequest rejects, before the response began or after the
\* transport began it.
HandleThrows(c) ==
  /\ alive
  /\ conn[c].pc = "handling"
  /\ alive' = tryCovers("handle")
  /\ \E began \in BOOLEAN :
       conn' = [conn EXCEPT ![c] = onError(IF began THEN writeHead(@) ELSE @)]
  /\ UNCHANGED <<apiKey, bound, others>>

\* The response emits 'close': it is complete, or the client went away while
\* the handler was waiting for the network or had returned (the event loop
\* delivers no event before the handler's first wait for the network).  The listener,
\* if registered, runs; closing the transport unbinds the registry.
ResClose(c) ==
  /\ alive
  /\ conn[c].res # "closed"
  /\ \/ conn[c].res = "finished"
     \/ conn[c].pc \in {"handling", "caught", "ended"}
  /\ IF conn[c].tr # 0
     THEN /\ conn' = [conn EXCEPT ![c] = [onClose(@) EXCEPT !.res = "closed"]]
          /\ bound' = [s \in Conns |-> IF bound[s] = conn[c].tr THEN 0 ELSE bound[s]]
     ELSE /\ conn' = [conn EXCEPT ![c].res = "closed"]
          /\ bound' = bound
  /\ UNCHANGED <<apiKey, alive, others>>

SysNext ==
  \E c \in Conns :
    \/ Post(c) \/ PostThrows(c) \/ ConnectThrows(c) \/ Connected(c)
    \/ UpstreamReply(c) \/ HandleThrows(c)
    \/ ResClose(c)

(***************************************************************************)
(* The codec on its own                                                    *)
(***************************************************************************)
CodecInit ==
  /\ cpc = "in"
  /\ cq \in Strings
  /\ cref = <<>>
  /\ cout = <<>>

Encode ==
  /\ cpc = "in"
  /\ cref' = b64enc(cq)
  /\ cpc' = "encoded"
  /\ UNCHANGED <<cq, cout, svars, askvars>>

Decode ==
  /\ cpc = "encoded"
  /\ cout' = b64dec(cref)
  /\ cpc' = "decoded"
  /\ UNCHANGED <<cq, cref, svars, askvars>>

CodecNext == Encode \/ Decode

(***************************************************************************)
(* Specifications.  Each runs one part; the other parts stay idle.         *)
(***************************************************************************)
CodecIdle == cpc = "off" /\ cq = <<>> /\ cref = <<>> /\ cout = <<>>
AskIdle ==
  /\ apc = "off"
  /\ ain = [query |-> <<>>, style |-> NoStyle, minWords |-> Undef]
  /\ areq = NoReq /\ arep = 0 /\ aout = NoOut
SysIdle == alive = TRUE /\ conn = [c \in Conns |-> IdleConn] /\ bound = [s \in Conns |-> 0]

\* The codec applied to every string up to MaxLen code units.
InitCodec == CodecInit /\ AskIdle /\ SysIdle /\ apiKey = FALSE
SpecCodec == InitCodec /\ [][CodecNext]_vars

\* askPerplexity applied to every option combination and upstream reply.
InitAsk == AskInit /\ CodecIdle /\ SysIdle
SpecAsk == InitAsk /\ [][AskNext]_vars

\* The server: concurrent POST /mcp requests, one tool call each.
Init == SysInit /\ CodecIdle /\ AskIdle
Next == SysNext
Spec == Init /\ [][Next]_vars

(***************************************************************************)
(* Properties                                                              *)
(***************************************************************************)
\* C1: for every non-empty well-formed (UTF-8) query q, decoding the
\* reference that encodes q gives back q: b64dec(b64enc(q)) = q.
RoundTrip ==
  (cpc = "decoded" /\ cq # <<>> /\ WellFormed(cq)) => cout = cq

RoundTripWitness ==
  cpc = "decoded" /\ WellFormed(cq) /\ Len(cq) = 2 /\ cq[1] = 55357 /\ cout = cq

Done(c, tool) == conn[c].call.tool = tool /\ conn[c].hpc = "done"
TornDown(c) == conn[c].teardown = <<"transport.close", "server.close">>

\* C2: a search for a well-formed query q returns exactly one result and
\* sends nothing upstream, and a fetch of that result's reference on any
\* connection, whatever happened in between, sends exactly q upstream.
SearchThenFetch ==
  \A c \in Conns :
    (Done(c, "search") /\ WellFormed(conn[c].call.query)) =>
      /\ conn[c].result.status = "ok"
      /\ Len(conn[c].result.results) = 1
      /\ ~conn[c].req.sent
      /\ \A d \in Conns :
           (/\ conn[d].call.tool = "fetch"
            /\ conn[d].call.ref = conn[c].result.results[1].id
            /\ conn[d].hpc # "none")
           => /\ apiKey => conn[d].req.sent
              /\ conn[d].req.sent => conn[d].req.query = conn[c].call.query

SearchThenFetchWitness ==
  \E c, d \in Conns :
    /\ c < d
    /\ Done(c, "search") /\ conn[c].call.query = <<233, 20013>>
    /\ conn[c].res = "closed" /\ TornDown(c)
    /\ conn[d].call.tool = "fetch"
    /\ conn[d].call.ref = conn[c].result.results[1].id
    /\ conn[d].req.sent /\ conn[d].req.query = <<233, 20013>>

\* C3: a fetch of a reference that is not a valid base64url token fails
\* with a DecodeError of that call, and the process keeps running.  Stated
\* with the credential configured, so that nothing else fails the call first.
MalformedRefFails ==
  /\ alive
  /\ \A c \in Conns :
       (/\ apiKey
        /\ conn[c].call.tool = "fetch"
        /\ conn[c].call.ref \in MalformedRefs
        /\ conn[c].hpc # "none")
       => /\ conn[c].hpc = "done"
          /\ conn[c].result.status = "error"
          /\ conn[c].result.err = "DecodeError"
          /\ ~conn[c].req.sent

floorForStyle == [short |-> 60, medium |-> 160, long |-> 300]

\* C4: with a style, the word target of the system instruction sent upstream
\* is the larger of the style's floor (short 60, medium 160, long 300) and
\* minWords (0 when absent).
StyleFloor ==
  (areq.sent /\ ain.style \in Styles) =>
    /\ areq.system.anchored
    /\ areq.system.words =
         Max(floorForStyle[ain.style], IF ain.minWords = Undef THEN 0 ELSE ain.minWords)
    /\ (ain.style = "short" /\ ain.minWords = Undef) => areq.system.words = 60
    /\ (ain.style = "long" /\ ain.minWords = 500) => areq.system.words = 500

StyleFloorWitness ==
  /\ areq.sent /\ ain.style = "long" /\ ain.minWords = 500
  /\ areq.system = [anchored |-> TRUE, words |-> 500]

\* C5: with minWords and no style, the system instruction sent upstream is
\* the length-anchored one, and its word target is minWords.
MinWordsAlone ==
  (areq.sent /\ ain.style = NoStyle /\ ain.minWords # Undef) =>
    areq.system = [anchored |-> TRUE, words |-> ain.minWords]

\* C6: without a credential no request is ever sent upstream, every answer
\* and fetch call fails with the configuration error, and the process keeps
\* running.
MissingCredential ==
  ~apiKey =>
    /\ alive
    /\ \A c \in Conns :
         /\ ~conn[c].req.sent
         /\ conn[c].hpc # "awaiting"
         /\ (Done(c, "answer") \/ Done(c, "fetch")) =>
              /\ conn[c].result.status = "error"
              /\ conn[c].result.err = "Missing PERPLEXITY_API_KEY"

MissingCredentialWitness ==
  /\ ~apiKey
  /\ \E c, d \in Conns :
       /\ Done(c, "answer") /\ conn[c].result.err = "Missing PERPLEXITY_API_KEY"
       /\ Done(d, "fetch") /\ conn[d].result.err = "Missing PERPLEXITY_API_KEY"

\* The content a response carries is that of the connection's own call.
OwnContent(c, r) ==
  /\ \A i \in 1..Len(r.results) :
       /\ conn[c].call.tool = "search"
       /\ r.results[i].title.query = conn[c].call.query
       /\ b64dec(r.results[i].id) = conn[c].call.query
  /\ \A i \in 1..Len(r.doc) :
       /\ conn[c].call.tool = "fetch"
       /\ r.doc[i].id = conn[c].call.ref
       /\ r.doc[i].title.query = conn[c].req.query
  /\ \A i \in 1..Len(r.answer) : conn[c].call.tool = "answer"

\* C7: every request has a registry and a transport of its own, and under
\* every interleaving a connection's response carries only the result of
\* its own call: never a reference or document of another connection's query.
Isolation ==
  \A c \in Conns :
    /\ \A d \in Conns \ {c} :
         /\ conn[c].srv # 0 => conn[c].srv # conn[d].srv
         /\ conn[c].tr # 0 => conn[c].tr # conn[d].tr
    /\ \A m \in conn[c].out :
         m.kind = "result" =>
           /\ conn[c].hpc = "done"
           /\ m.result = conn[c].result
           /\ OwnContent(c, m.result)

IsolationWitness ==
  \E c, d \in Conns :
    /\ conn[c].call.tool = "fetch" /\ conn[c].hpc = "awaiting"
    /\ conn[d].call.tool = "fetch" /\ conn[d].call.ref # conn[c].call.ref
    /\ \E m \in conn[d].out :
         /\ m.kind = "result" /\ m.result.doc # <<>>
         /\ m.result.doc[1].id = conn[d].call.ref
         /\ m.result.doc[1].title.query = <<233, 20013>>

\* C8: an error in the construction, in connect or in handleRequest never
\* kills the process; the catch answers 500 with the JSON-RPC error -32603,
\* id null, when the response had not begun, and writes nothing when it had:
\* the head of a response is written at most once.
InternalErrorReporting ==
  /\ alive
  /\ \A c \in Conns :
       /\ conn[c].writes <= 1
       /\ conn[c].writes = 1 <=> conn[c].headersSent
       /\ conn[c].pc = "caught" =>
            \/ /\ conn[c].status = 500
               /\ conn[c].out = {InternalError}
               /\ InternalError.code = -32603 /\ InternalError.id = "null"
            \/ /\ conn[c].status = 200
               /\ InternalError \notin conn[c].out
       /\ InternalError \in conn[c].out => conn[c].pc = "caught"

InternalErrorReportingWitness ==
  \E c, d \in Conns :
    /\ conn[c].pc = "caught" /\ conn[c].status = 500 /\ conn[c].out = {InternalError}
    /\ conn[d].pc = "caught" /\ conn[d].status = 200 /\ conn[d].headersSent
    /\ conn[d].writes = 1 /\ InternalError \notin conn[d].out

\* A registry and transport that were torn down start no handler and deliver
\* no result, and are not torn down again.
QuietAfterTeardown ==
  \A c \in Conns :
    conn[c].teardown # <<>> =>
      /\ conn'[c].teardown = conn[c].teardown
      /\ conn[c].hpc = "none" => conn'[c].hpc = "none"
      /\ conn'[c].out \ conn[c].out \subseteq {InternalError}

\* C9: once a connection is set up (its listener registered), the close of
\* its response, after completion, client disconnect or error, closes the
\* transport and then the registry, each exactly once, and after that they
\* serve no further call.
Teardown ==
  /\ [](\A c \in Conns :
          /\ conn[c].teardown \in {<<>>, <<"transport.close", "server.close">>}
          /\ (conn[c].res = "closed" /\ conn[c].tr # 0) <=> TornDown(c)
          /\ TornDown(c) => (conn[c].srv = 0 \/ bound[conn[c].srv] # conn[c].tr))
  /\ [][QuietAfterTeardown]_vars

TeardownWitness ==
  \E c, d \in Conns :
    /\ conn[c].pc = "caught" /\ TornDown(c)
    /\ conn[d].pc = "handling" /\ conn[d].hpc = "awaiting" /\ TornDown(d)

NoContent(json) ==
  nullish(member(member(first(member(json, "choices")), "message"), "content"))
NoText(json) == nullish(member(first(member(json, "choices")), "text"))

\* C10 as stated: a success status with an unparseable body, with no
\* choices or with no message content gives an answer whose text is "".
BadPayloadGivesEmpty ==
  (/\ apc = "done" /\ arep # 0 /\ Replies[arep].ok
   /\ (~Replies[arep].parses \/ NoContent(Replies[arep].json)))
  => (aout.status = "ok" /\ aout.full = JStr(""))

\* C10, amended: a success status with a body that parses and has neither
\* choices[0].message.content nor choices[0].text gives an answer whose text
\* is ""; with a body that does not parse the call fails.
DegenerateGivesEmpty ==
  (apc = "done" /\ arep # 0 /\ Replies[arep].ok) =>
    /\ (/\ Replies[arep].parses
        /\ NoContent(Replies[arep].json) /\ NoText(Replies[arep].json))
       => (aout.status = "ok" /\ aout.full = JStr(""))
    /\ ~Replies[arep].parses => aout.status = "error"

DegenerateGivesEmptyWitness ==
  /\ apc = "done" /\ arep # 0 /\ Replies[arep].ok /\ Replies[arep].parses
  /\ Replies[arep].json = Choice(JObj([message |-> JObj([role |-> JStr("assistant")])]))
  /\ aout.status = "ok" /\ aout.full = JStr("")

=============================================================================
